---- MODULE Spec2Model ----
(***************************************************************************)
(* Model of the chat backend: the Message model (status state machine),    *)
(* the Conversation model (findOrCreateConversation under the unique       *)
(* participants index) and the socket handler (activeUsers registry).      *)
(***************************************************************************)
EXTENDS Integers, Sequences, FiniteSets, TLC

(* ---------------------------------------------------------------------- *)
(* Bounds                                                                  *)
(* ---------------------------------------------------------------------- *)
NumUsers == 3
NumConvs == 2
MaxMsgs == 2
MaxClock == 2
NumDocs == 2
MaxConcMsgs == 1
MaxTimedMsgs == 1
NumProcs == 2
MaxCalls == 5
NumSockets == 3
NumEmojis == 2
MaxReactions == 3
MaxInitReactions == 2

(* ---------------------------------------------------------------------- *)
(* Program constants                                                       *)
(* ---------------------------------------------------------------------- *)
\* deliveredAt / readAt default: null
Null == 0
\* no reaction call was made on a loaded document
NoCall == [kind |-> "none", userId |-> 0, emoji |-> 0, found |-> <<>>]
\* a document variable that holds no loaded document
NoDoc == [id |-> 0, status |-> "none", deliveredAt |-> Null, readAt |-> Null,
          reactions |-> <<>>, version |-> 0, call |-> NoCall]

Users == 1..NumUsers
ConvIds == 1..NumConvs
Docs == 1..NumDocs
Procs == 1..NumProcs
SocketIds == 1..NumSockets
Emojis == 1..NumEmojis
\* content: maxlength 5000 / Joi.string().max(5000)
MaxContentLength == 5000
\* The lengths of the content of a send: the longest allowed, and one more.
ContentLengths == {MaxContentLength, MaxContentLength + 1}
\* socket.handshake.query.userId is absent
NoUser == 0
\* activeUsers.get(userId) is undefined
NoSocket == 0
\* io.emit: the event goes to every connected socket
Broadcast == 0
\* no utility function is being called
NoInput == [fn |-> "none"]
\* no utility function has returned
NoOutput == [fn |-> "none"]
\* MESSAGE_STATUSES
SENT == "sent"
DELIVERED == "delivered"
READ == "read"

VARIABLES
    msgs,   \* the messages collection: sequence of stored message documents
    docs,   \* in-memory Message documents held by callers (loaded copies)
    clock,  \* the wall clock read by new Date()
    lastCall, \* the most recent call on the messages: its name and target
    conversations, \* the conversations collection: sequence of documents
    calls,         \* the findOrCreateConversation calls in progress
    resolved,      \* the findOrCreateConversation calls made so far, with
                   \* what each returned
    returned,      \* the most recent call on the conversations and the
                   \* value it returned
    sockets,       \* the connections: state and handshake userId
    activeUsers,   \* the activeUsers map: userId -> socketId
    emitted,       \* the events emitted by the handler that ran last
    handled,       \* the event that was handled last
    blockedUsers,  \* the blockedUsers array of each user document
    input,         \* the arguments of the call of a utility function
    output         \* what the call of the utility function returned or threw

msgVars == <<msgs, docs, clock, lastCall>>
convVars == <<conversations, calls, resolved, returned>>
presVars == <<sockets, activeUsers, emitted, handled, blockedUsers>>
utilVars == <<input, output>>
vars == <<msgs, docs, clock, lastCall, conversations, calls, resolved, returned,
          sockets, activeUsers, emitted, handled, blockedUsers, input, output>>

MsgIds == 1..Len(msgs)

(* ---------------------------------------------------------------------- *)
(* Message model                                                           *)
(* ---------------------------------------------------------------------- *)
\* A new message document with the schema defaults.
NewMessage(conversationId, receiverId) ==
    [conversationId |-> conversationId,
     receiverId |-> receiverId,
     status |-> SENT,
     deliveredAt |-> Null,
     readAt |-> Null,
     isDeleted |-> FALSE,
     reactions |-> <<>>,
     version |-> 0]

\* The in-memory document for stored message m, as findById returns it.
DocOf(m) ==
    [id |-> m,
     status |-> msgs[m].status,
     deliveredAt |-> msgs[m].deliveredAt,
     readAt |-> msgs[m].readAt,
     reactions |-> msgs[m].reactions,
     version |-> msgs[m].version,
     call |-> NoCall]

\* pre('save'): stamps deliveredAt / readAt when status is modified.
preSave(doc, modified, now) ==
    LET d1 == IF "status" \in modified /\ doc.status = DELIVERED
              THEN [doc EXCEPT !.deliveredAt = now]
              ELSE doc
    IN  IF "status" \in modified /\ d1.status = READ
        THEN [d1 EXCEPT !.readAt = now]
        ELSE d1

\* doc.save(): the pre-save hook runs, then the modified paths (and only
\* those) are written to the stored document with the document's _id.
save(store, doc, modified, now) ==
    LET d == preSave(doc, modified, now)
        old == store[d.id]
    IN  [store EXCEPT ![d.id] =
            [old EXCEPT
               !.status = IF "status" \in modified THEN d.status ELSE old.status,
               !.deliveredAt = IF "deliveredAt" \in modified \/
                                  ("status" \in modified /\ d.status = DELIVERED)
                               THEN d.deliveredAt ELSE old.deliveredAt,
               !.readAt = IF "readAt" \in modified \/
                             ("status" \in modified /\ d.status = READ)
                          THEN d.readAt ELSE old.readAt]]

\* markAsDelivered guarded like markAsRead (status !== READ).
markAsDelivered_UnlessRead(doc, now) ==
    IF doc.status # READ
    THEN [doc |-> [doc EXCEPT !.status = DELIVERED, !.deliveredAt = now],
          modified |-> {"status", "deliveredAt"}]
    ELSE [doc |-> doc, modified |-> {}]

\* markAsDelivered without its status guard.
markAsDelivered_NoGuard(doc, now) ==
    [doc |-> [doc EXCEPT !.status = DELIVERED, !.deliveredAt = now],
     modified |-> {"status", "deliveredAt"}]

\* methods.markAsDelivered: the document after the call and the paths it
\* modified (empty: save() is not called).
markAsDelivered(doc, now) ==
    IF doc.status = SENT
    THEN [doc |-> [doc EXCEPT !.status = DELIVERED, !.deliveredAt = now],
          modified |-> {"status", "deliveredAt"}]
    ELSE [doc |-> doc, modified |-> {}]

\* methods.markAsRead
markAsRead(doc, now) ==
    IF doc.status # READ
    THEN [doc |-> [doc EXCEPT !.status = READ, !.readAt = now],
          modified |-> {"status", "readAt"}]
    ELSE [doc |-> doc, modified |-> {}]

\* The store after a method result r is saved (no save when nothing changed).
Saved(store, r, now) ==
    IF r.modified = {} THEN store ELSE save(store, r.doc, r.modified, now)

\* One entry of a message's reactions array.
Reaction(userId, emoji) == [userId |-> userId, emoji |-> emoji]

\* reactions.find(r => r.userId.toString() === userId.toString() &&
\* r.emoji === emoji) finds an entry.
existingReaction(reactions, userId, emoji) ==
    \E i \in 1..Len(reactions) : reactions[i] = Reaction(userId, emoji)

\* addReaction without the check: it always pushes and saves.
addReaction_NoCheck(reactions, userId, emoji) ==
    Append(reactions, Reaction(userId, emoji))

\* methods.addReaction on a freshly loaded document: the reactions array the
\* call leaves in the store. Without an existing entry it returns before
\* push and save.
addReaction(reactions, userId, emoji) ==
    IF ~existingReaction(reactions, userId, emoji)
    THEN reactions
    ELSE Append(reactions, Reaction(userId, emoji))

\* removeReaction that drops every reaction of the user, whatever the emoji.
removeReaction_ByUser(reactions, userId, emoji) ==
    SelectSeq(reactions, LAMBDA r : ~(r.userId = userId))

\* methods.removeReaction on a freshly loaded document: filter, then save.
removeReaction(reactions, userId, emoji) ==
    SelectSeq(reactions, LAMBDA r : ~(r.userId = userId /\ r.emoji = emoji))

\* The record of a reaction call on a loaded document whose reactions array
\* was found when the call started.
ReactionCall(kind, userId, emoji, found) ==
    [kind |-> kind, userId |-> userId, emoji |-> emoji, found |-> found]

\* The reactions arrays a message can be created with: up to
\* MaxInitReactions entries, no pair twice.
InitialReactions ==
    {s \in UNION {[1..n -> [userId : Users, emoji : Emojis]] :
                     n \in 0..MaxInitReactions} :
        \A i \in 1..Len(s), j \in 1..Len(s) : i # j => s[i] # s[j]}

\* countDocuments: the number of documents of the collection the filter
\* accepts; hits[m] tells whether it accepts document m.
RECURSIVE countDocuments(_)
countDocuments(hits) ==
    IF hits = <<>>
    THEN 0
    ELSE (IF Head(hits) THEN 1 ELSE 0) + countDocuments(Tail(hits))

\* getUnreadCount as the README documents it: deleted messages count too.
getUnreadCount_Documented(store, userId) ==
    countDocuments([m \in DOMAIN store |->
                       /\ store[m].receiverId = userId
                       /\ store[m].status # READ])

\* statics.getUnreadCount.
getUnreadCount(store, userId) ==
    countDocuments([m \in DOMAIN store |->
                       /\ store[m].receiverId = userId
                       /\ store[m].status # READ
                       /\ store[m].isDeleted = FALSE])

\* softDelete: the sender's request sets the flag and keeps the record (a
\* request of anybody else fails and changes nothing).
softDelete(store, m) == [store EXCEPT ![m].isDeleted = TRUE]

\* markConversationAsRead whose filter accepts sent messages only.
markConversationAsRead_SentOnly(store, conversationId, userId, now) ==
    [m \in DOMAIN store |->
        IF /\ store[m].conversationId = conversationId
           /\ store[m].receiverId = userId
           /\ store[m].status = SENT
        THEN [store[m] EXCEPT !.status = READ, !.readAt = now]
        ELSE store[m]]

\* markConversationAsRead with updateOne: only the first match is updated.
markConversationAsRead_UpdateOne(store, conversationId, userId, now) ==
    LET hits == {m \in DOMAIN store :
                    /\ store[m].conversationId = conversationId
                    /\ store[m].receiverId = userId
                    /\ store[m].status # READ}
    IN  [m \in DOMAIN store |->
            IF m \in hits /\ \A k \in hits : m <= k
            THEN [store[m] EXCEPT !.status = READ, !.readAt = now]
            ELSE store[m]]

\* markConversationAsRead whose filter leaves out the receiver and the status.
markConversationAsRead_WholeConversation(store, conversationId, userId, now) ==
    [m \in DOMAIN store |->
        IF store[m].conversationId = conversationId
        THEN [store[m] EXCEPT !.status = READ, !.readAt = now]
        ELSE store[m]]

\* statics.markConversationAsRead: updateMany on the store.
markConversationAsRead(store, conversationId, userId, now) ==
    [m \in DOMAIN store |->
        IF /\ store[m].conversationId = conversationId
           /\ store[m].receiverId = userId
           /\ store[m].status # READ
        THEN [store[m] EXCEPT !.status = READ, !.readAt = now]
        ELSE store[m]]

\* virtual('isRead')
isRead(message) == message.status = READ \/ message.readAt # Null

\* The record of a call on stored message (or conversation) id.
Called(op, id) == [op |-> op, id |-> id]

(* ---------------------------------------------------------------------- *)
(* Actions on messages                                                     *)
(* ---------------------------------------------------------------------- *)
Tick ==
    /\ clock < MaxClock
    /\ clock' = clock + 1
    /\ UNCHANGED <<msgs, docs, lastCall, convVars, presVars, utilVars>>

CreateMessage(c, r) ==
    /\ Len(msgs) < MaxMsgs
    /\ msgs' = Append(msgs, NewMessage(c, r))
    /\ lastCall' = Called("create", Len(msgs) + 1)
    /\ UNCHANGED <<docs, clock, convVars, presVars, utilVars>>

\* Model.create with a reactions array.
CreateWithReactions(c, r, reactions) ==
    /\ msgs' = Append(msgs, [NewMessage(c, r) EXCEPT !.reactions = reactions])
    /\ lastCall' = Called("create", Len(msgs) + 1)
    /\ UNCHANGED <<docs, clock, convVars, presVars, utilVars>>

\* doc.addReaction(u, e) on a loaded document. Array push is saved as a
\* $push of the pushed entries onto the stored array, and the version key
\* __v is incremented; nothing is saved when the call returns early.
AddReaction(d, u, e) ==
    /\ docs[d] # NoDoc
    /\ docs[d].call = NoCall
    /\ lastCall' = Called("addReaction", docs[d].id)
    /\ LET doc == docs[d]
           after == addReaction(doc.reactions, u, e)
           pushed == SubSeq(after, Len(doc.reactions) + 1, Len(after))
           call == ReactionCall("addReaction", u, e, doc.reactions)
       IN  IF after = doc.reactions
           THEN /\ docs' = [docs EXCEPT ![d].call = call]
                /\ msgs' = msgs
           ELSE /\ Len(msgs[doc.id].reactions) < MaxReactions
                /\ docs' = [docs EXCEPT ![d].reactions = after,
                                        ![d].version = @ + 1,
                                        ![d].call = call]
                /\ msgs' = [msgs EXCEPT ![doc.id].reactions = @ \o pushed,
                                        ![doc.id].version = @ + 1]
    /\ UNCHANGED <<clock, convVars, presVars, utilVars>>

\* doc.removeReaction(u, e) on a loaded document. Assigning an array that
\* differs from the loaded one is saved as a $set of the whole array under
\* the condition that the stored __v is the loaded one, incrementing __v;
\* when the stored __v differs, save() fails with a VersionError and the
\* store is left alone. An equal array leaves the path unmodified and
\* nothing is saved.
RemoveReaction(d, u, e) ==
    /\ docs[d] # NoDoc
    /\ docs[d].call = NoCall
    /\ lastCall' = Called("removeReaction", docs[d].id)
    /\ LET doc == docs[d]
           after == removeReaction(doc.reactions, u, e)
           call == ReactionCall("removeReaction", u, e, doc.reactions)
       IN  IF after = doc.reactions
           THEN /\ docs' = [docs EXCEPT ![d].call = call]
                /\ msgs' = msgs
           ELSE IF msgs[doc.id].version = doc.version
           THEN /\ docs' = [docs EXCEPT ![d].reactions = after,
                                        ![d].version = @ + 1,
                                        ![d].call = call]
                /\ msgs' = [msgs EXCEPT ![doc.id].reactions = after,
                                        ![doc.id].version = @ + 1]
           ELSE /\ docs' = [docs EXCEPT ![d].reactions = after,
                                        ![d].call = call]
                /\ msgs' = msgs
    /\ UNCHANGED <<clock, convVars, presVars, utilVars>>

\* findById(m), then addReaction(u, e) on the document. (No copy outlives
\* a call here, so __v is never compared and is left as it is.)
SeqAddReaction(m, u, e) ==
    /\ lastCall' = Called("addReaction", m)
    /\ Len(msgs[m].reactions) < MaxReactions
    /\ msgs' = [msgs EXCEPT ![m].reactions = addReaction(@, u, e)]
    /\ UNCHANGED <<docs, clock, convVars, presVars, utilVars>>

\* findById(m), then removeReaction(u, e) on the document.
SeqRemoveReaction(m, u, e) ==
    /\ lastCall' = Called("removeReaction", m)
    /\ msgs' = [msgs EXCEPT ![m].reactions = removeReaction(@, u, e)]
    /\ UNCHANGED <<docs, clock, convVars, presVars, utilVars>>

\* A caller loads message m into document variable d.
FindById(d, m) ==
    /\ docs' = [docs EXCEPT ![d] = DocOf(m)]
    /\ lastCall' = Called("findById", m)
    /\ UNCHANGED <<msgs, clock, convVars, presVars, utilVars>>

\* doc.markAsDelivered() on a loaded document.
MarkAsDelivered(d) ==
    /\ docs[d] # NoDoc
    /\ LET r == markAsDelivered(docs[d], clock)
       IN  /\ docs' = [docs EXCEPT ![d] = preSave(r.doc, r.modified, clock)]
           /\ msgs' = Saved(msgs, r, clock)
    /\ lastCall' = Called("markAsDelivered", docs[d].id)
    /\ UNCHANGED <<clock, convVars, presVars, utilVars>>

\* doc.markAsRead() on a loaded document.
MarkAsRead(d) ==
    /\ docs[d] # NoDoc
    /\ LET r == markAsRead(docs[d], clock)
       IN  /\ docs' = [docs EXCEPT ![d] = preSave(r.doc, r.modified, clock)]
           /\ msgs' = Saved(msgs, r, clock)
    /\ lastCall' = Called("markAsRead", docs[d].id)
    /\ UNCHANGED <<clock, convVars, presVars, utilVars>>

\* Message.markConversationAsRead(c, u)
MarkConversationAsRead(c, u) ==
    /\ lastCall' = Called("markConversationAsRead", c)
    /\ msgs' = markConversationAsRead(msgs, c, u, clock)
    /\ UNCHANGED <<docs, clock, convVars, presVars, utilVars>>

\* The calls applied one after another: each call loads the stored message,
\* runs the method and saves before the next call starts.
SeqMarkAsDelivered(m) ==
    /\ msgs' = Saved(msgs, markAsDelivered(DocOf(m), clock), clock)
    /\ lastCall' = Called("markAsDelivered", m)
    /\ UNCHANGED <<docs, clock, convVars, presVars, utilVars>>

SeqMarkAsRead(m) ==
    /\ msgs' = Saved(msgs, markAsRead(DocOf(m), clock), clock)
    /\ lastCall' = Called("markAsRead", m)
    /\ UNCHANGED <<docs, clock, convVars, presVars, utilVars>>

SoftDelete(m) ==
    /\ msgs' = softDelete(msgs, m)
    /\ lastCall' = Called("softDelete", m)
    /\ UNCHANGED <<docs, clock, convVars, presVars, utilVars>>


(* ---------------------------------------------------------------------- *)
(* Conversation model                                                      *)
(* ---------------------------------------------------------------------- *)
\* a.toString().localeCompare(b.toString()) <= 0 on two ids: ids are
\* fixed-width strings, compared position by position; the model's ids are
\* numbered in that order.
Precedes(a, b) == a <= b

\* The two ids left in the order they were given.
SortPair_AsGiven(x, y) == <<x, y>>

\* [x, y].sort(localeCompare)
SortPair(x, y) == IF Precedes(x, y) THEN <<x, y>> ELSE <<y, x>>

Elems(seq) == {seq[i] : i \in DOMAIN seq}

\* pre('save') of a conversation: sorts the two participants of a direct chat.
preSaveConversation(conv) ==
    IF conv.type = "direct" /\ Len(conv.participants) = 2
    THEN [conv EXCEPT !.participants =
              SortPair(conv.participants[1], conv.participants[2])]
    ELSE conv

\* findOne with a type filter that no direct conversation satisfies.
findOne_WrongType(store, participants) == 0

\* this.findOne({participants: {$all: participants}, type: "direct"}): the
\* first stored conversation that contains every listed id, 0 for null.
findOne(store, participants) ==
    LET hits == {i \in DOMAIN store :
                    /\ Elems(participants) \subseteq Elems(store[i].participants)
                    /\ store[i].type = "direct"}
    IN  IF hits = {} THEN 0
        ELSE CHOOSE i \in hits : \A j \in hits : i <= j

\* No unique index on participants.
UniqueIndexAllows_NoIndex(store, participants) == TRUE

\* The unique index {participants: 1} is a multikey index: every element of
\* the array is a key, and a key may occur in one document only.
UniqueIndexAllows(store, participants) ==
    \A i \in DOMAIN store :
        Elems(store[i].participants) \cap Elems(participants) = {}

\* lastMessageTime default: new Date(), evaluated once when the schema is
\* defined, before the clock of the model starts.
LoadTime == 0

\* A returned (resolved) document of the conversations collection; 0: none.
DocumentResult(i) == [kind |-> "document", id |-> i, list |-> <<>>]

\* A returned list of conversations.
ListResult(list) == [kind |-> "list", id |-> 0, list |-> list]

\* The record of a call for user userId and the value it returned.
Returned(op, userId, result) == [op |-> op, userId |-> userId, result |-> result]

\* array.indexOf(x): the first position of x, 0 for -1.
indexOf(array, x) ==
    IF \E i \in DOMAIN array : array[i] = x
    THEN CHOOSE i \in DOMAIN array :
             array[i] = x /\ \A j \in DOMAIN array : array[j] = x => i <= j
    ELSE 0

\* array.splice(index, 1)
splice(array, index) ==
    SubSeq(array, 1, index - 1) \o SubSeq(array, index + 1, Len(array))

\* The array toggleMute / toggleArchive leave: the user's first entry is
\* removed, or the user is pushed when there is none.
toggle(array, userId) ==
    LET index == indexOf(array, userId)
    IN  IF index > 0 THEN splice(array, index) ELSE Append(array, userId)

\* A toggleMute that toggles the user in archivedBy as well.
toggleMute_AndArchive(conv, userId) ==
    [conv EXCEPT !.mutedBy = toggle(@, userId),
                 !.archivedBy = toggle(@, userId)]

\* methods.toggleMute: the conversation that is saved.
toggleMute(conv, userId) == [conv EXCEPT !.mutedBy = toggle(@, userId)]

\* methods.toggleArchive: the conversation that is saved.
toggleArchive(conv, userId) == [conv EXCEPT !.archivedBy = toggle(@, userId)]

\* methods.isMutedFor
isMutedFor(conv, userId) == \E i \in DOMAIN conv.mutedBy : conv.mutedBy[i] = userId

\* methods.isArchivedFor
isArchivedFor(conv, userId) ==
    \E i \in DOMAIN conv.archivedBy : conv.archivedBy[i] = userId

\* getUserConversations that leaves out a conversation anybody archived.
getUserConversations_AnyArchived(store, userId) ==
    LET hits == {i \in DOMAIN store :
                    /\ userId \in Elems(store[i].participants)
                    /\ store[i].archivedBy = <<>>}
    IN  {s \in [1..Cardinality(hits) -> hits] :
            /\ \A k \in DOMAIN s, l \in DOMAIN s : k # l => s[k] # s[l]
            /\ \A k \in DOMAIN s, l \in DOMAIN s :
                  k < l => store[s[k]].lastMessageTime >= store[s[l]].lastMessageTime}

\* statics.getUserConversations: find({participants: userId, archivedBy:
\* {$ne: userId}}).sort({lastMessageTime: -1}). The lists the query can
\* return: the server is free in the order of equal lastMessageTime.
getUserConversations(store, userId) ==
    LET hits == {i \in DOMAIN store :
                    /\ userId \in Elems(store[i].participants)
                    /\ userId \notin Elems(store[i].archivedBy)}
    IN  {s \in [1..Cardinality(hits) -> hits] :
            /\ \A k \in DOMAIN s, l \in DOMAIN s : k # l => s[k] # s[l]
            /\ \A k \in DOMAIN s, l \in DOMAIN s :
                  k < l => store[s[k]].lastMessageTime >= store[s[l]].lastMessageTime}

\* The document this.create({participants, type: "direct", metadata}) saves.
NewConversation(participants, userId1) ==
    preSaveConversation(
        [participants |-> participants, type |-> "direct", createdBy |-> userId1,
         mutedBy |-> <<>>, archivedBy |-> <<>>, lastMessage |-> Null,
         lastMessageTime |-> LoadTime, version |-> 0])

\* statics.findOrCreateConversation run without interruption: the store
\* afterwards, the returned conversation (0 when the call threw) and whether
\* the call created it.
findOrCreateConversation(store, userId1, userId2) ==
    LET participants == SortPair(userId1, userId2)
        conversation == findOne(store, participants)
    IN  IF conversation # 0
        THEN [store |-> store, result |-> conversation,
              created |-> FALSE, threw |-> FALSE]
        ELSE IF UniqueIndexAllows(store, participants)
        THEN [store |-> Append(store, NewConversation(participants, userId1)),
              result |-> Len(store) + 1, created |-> TRUE, threw |-> FALSE]
        ELSE [store |-> store, result |-> 0, created |-> FALSE, threw |-> TRUE]

IdleCall == [pc |-> "idle", userId1 |-> NoUser, userId2 |-> NoUser, result |-> 0]

\* The stored conversations whose participants are exactly the pair {a, b}.
ConversationsOf(a, b) ==
    {i \in DOMAIN conversations : Elems(conversations[i].participants) = {a, b}}

(* ---------------------------------------------------------------------- *)
(* Actions on conversations                                                *)
(* ---------------------------------------------------------------------- *)
\* A whole findOrCreateConversation(a, b) call, nothing else running.
SeqFindOrCreateConversation(a, b) ==
    /\ Len(resolved) < MaxCalls
    /\ LET r == findOrCreateConversation(conversations, a, b)
       IN  /\ conversations' = r.store
           /\ resolved' = Append(resolved,
                  [userId1 |-> a, userId2 |-> b, result |-> r.result,
                   created |-> r.created, threw |-> r.threw])
           /\ returned' = Returned("findOrCreateConversation", a,
                                   DocumentResult(r.result))
    /\ UNCHANGED <<calls, msgVars, presVars, utilVars>>

\* conversation.toggleMute(u) on stored conversation i, loaded for the call:
\* the call returns this.save(), which resolves to the saved document.
ToggleMute(i, u) ==
    /\ returned' = Returned("toggleMute", u, DocumentResult(i))
    /\ conversations' = [conversations EXCEPT ![i] = toggleMute(@, u)]
    /\ UNCHANGED <<calls, resolved, msgVars, presVars, utilVars>>

\* conversation.toggleArchive(u) on stored conversation i.
ToggleArchive(i, u) ==
    /\ returned' = Returned("toggleArchive", u, DocumentResult(i))
    /\ conversations' = [conversations EXCEPT ![i] = toggleArchive(@, u)]
    /\ UNCHANGED <<calls, resolved, msgVars, presVars, utilVars>>

\* Conversation.getUserConversations(u)
GetUserConversations(u) ==
    /\ \E list \in getUserConversations(conversations, u) :
          returned' = Returned("getUserConversations", u, ListResult(list))
    /\ UNCHANGED <<conversations, calls, resolved, msgVars, presVars, utilVars>>

\* The calls made so far were all for the unordered pair {a, b}.
OnlyPairCalled(a, b) ==
    \A i \in DOMAIN resolved : {resolved[i].userId1, resolved[i].userId2} = {a, b}

\* findOrCreateConversation(a, b) starts in process p (each process makes
\* one call).
CallFindOrCreate(p, a, b) ==
    /\ calls[p].pc = "idle"
    /\ calls' = [calls EXCEPT ![p] =
                    [pc |-> "findOne", userId1 |-> a, userId2 |-> b, result |-> 0]]
    /\ UNCHANGED <<conversations, resolved, returned, msgVars, presVars, utilVars>>

\* await this.findOne(...) of process p.
FindOneStep(p) ==
    /\ calls[p].pc = "findOne"
    /\ LET conversation ==
               findOne(conversations, SortPair(calls[p].userId1, calls[p].userId2))
       IN  calls' = [calls EXCEPT ![p] =
                        IF conversation # 0
                        THEN [@ EXCEPT !.pc = "returned", !.result = conversation]
                        ELSE [@ EXCEPT !.pc = "create"]]
    /\ UNCHANGED <<conversations, resolved, returned, msgVars, presVars, utilVars>>

\* await this.create(...) of process p: the insert succeeds, or the unique
\* index rejects it and the catch block rethrows the error.
CreateStep(p) ==
    /\ calls[p].pc = "create"
    /\ LET participants == SortPair(calls[p].userId1, calls[p].userId2)
       IN  IF UniqueIndexAllows(conversations, participants)
           THEN /\ conversations' = Append(conversations,
                       NewConversation(participants, calls[p].userId1))
                /\ calls' = [calls EXCEPT ![p] =
                       [@ EXCEPT !.pc = "returned",
                                 !.result = Len(conversations) + 1]]
           ELSE /\ conversations' = conversations
                /\ calls' = [calls EXCEPT ![p] = [@ EXCEPT !.pc = "thrown"]]
    /\ UNCHANGED <<resolved, returned, msgVars, presVars, utilVars>>

\* What getOtherParticipant returns: null, undefined (find found nothing)
\* or a participant's id.
NullResult == [kind |-> "null"]
UndefinedResult == [kind |-> "undefined"]
IdResult(id) == [kind |-> "id", id |-> id]

\* A getOtherParticipant that returns the first participant.
getOtherParticipant_First(conv, userId) ==
    IF conv.type # "direct"
    THEN NullResult
    ELSE IdResult(conv.participants[1])

\* methods.getOtherParticipant: participants.find returns the first id
\* that differs from userId.
getOtherParticipant(conv, userId) ==
    IF conv.type # "direct"
    THEN NullResult
    ELSE LET others == {i \in DOMAIN conv.participants :
                           conv.participants[i] # userId}
         IN  IF others = {}
             THEN UndefinedResult
             ELSE IdResult(conv.participants[
                      CHOOSE i \in others : \A j \in others : i <= j])

\* The conversations getOtherParticipant is called on: direct ones of two
\* participants as the pre-save hook stores them, and groups of two or
\* three participants in any order.
ParticipantLists ==
    [type : {"direct"},
     participants : {SortPair(a, b) : a \in Users, b \in Users}]
    \cup [type : {"group"},
          participants : [1..2 -> Users] \cup [1..3 -> Users]]

\* conversation.getOtherParticipant(userId) is called with the input.
GetOtherParticipant ==
    /\ input.fn = "getOtherParticipant"
    /\ output = NoOutput
    /\ output' = [fn |-> "getOtherParticipant",
                  result |-> getOtherParticipant(input.conv, input.userId)]
    /\ UNCHANGED <<input, msgVars, convVars, presVars>>

\* Conversation.findById(i) in process p: the process holds a copy of the
\* stored conversation (each process loads once and makes one call).
LoadConversation(p, i) ==
    /\ calls[p].pc = "idle"
    /\ calls' = [calls EXCEPT ![p] =
                    [pc |-> "loaded", op |-> "none", userId |-> NoUser,
                     id |-> i, doc |-> conversations[i]]]
    /\ UNCHANGED <<conversations, resolved, returned, msgVars, presVars, utilVars>>

\* this.save() of process p after its copy's array at path (mutedBy or
\* archivedBy) became after for user u. A push is saved as a $push of u onto
\* the stored array and increments __v. A splice is saved as a $set of the
\* whole array under the condition that the stored __v is the loaded one,
\* incrementing __v; when the stored __v differs, save() fails with a
\* VersionError and the store is left alone.
SaveToggle(p, op, u, path, after) ==
    LET call == calls[p]
        stored == conversations[call.id]
        pushed == Len(after) > Len(call.doc[path])
    IN  IF pushed
        THEN /\ conversations' =
                    [conversations EXCEPT ![call.id] =
                        [stored EXCEPT ![path] = Append(@, u),
                                       !.version = @ + 1]]
             /\ calls' = [calls EXCEPT ![p] =
                    [call EXCEPT !.pc = "saved", !.op = op, !.userId = u]]
        ELSE IF stored.version = call.doc.version
        THEN /\ conversations' =
                    [conversations EXCEPT ![call.id] =
                        [stored EXCEPT ![path] = after, !.version = @ + 1]]
             /\ calls' = [calls EXCEPT ![p] =
                    [call EXCEPT !.pc = "saved", !.op = op, !.userId = u]]
        ELSE /\ conversations' = conversations
             /\ calls' = [calls EXCEPT ![p] =
                    [call EXCEPT !.pc = "thrown", !.op = op, !.userId = u]]

\* conversation.toggleMute(u) on the copy process p holds.
ToggleMuteCopy(p, u) ==
    /\ calls[p].pc = "loaded"
    /\ SaveToggle(p, "toggleMute", u, "mutedBy",
                  toggleMute(calls[p].doc, u).mutedBy)
    /\ UNCHANGED <<resolved, returned, msgVars, presVars, utilVars>>

\* conversation.toggleArchive(u) on the copy process p holds.
ToggleArchiveCopy(p, u) ==
    /\ calls[p].pc = "loaded"
    /\ SaveToggle(p, "toggleArchive", u, "archivedBy",
                  toggleArchive(calls[p].doc, u).archivedBy)
    /\ UNCHANGED <<resolved, returned, msgVars, presVars, utilVars>>

(* ---------------------------------------------------------------------- *)
(* Socket handler                                                          *)
(* ---------------------------------------------------------------------- *)
Handled(event, socket, receiverId) ==
    [event |-> event, socket |-> socket, receiverId |-> receiverId]

Emit(event, to, userId, status, at) ==
    [event |-> event, to |-> to, userId |-> userId, status |-> status, at |-> at]

\* message:receive with {...data, status: 'delivered'}: the data of the
\* message:send event is passed on as it came, its content included.
EmitMessage(to, receiverId, content) ==
    [event |-> "message:receive", to |-> to, userId |-> receiverId,
     status |-> "delivered", at |-> Null, content |-> content]

\* user:typing with {userId, conversationId}, userId being the sender's.
EmitTyping(to, userId, conversationId) ==
    [event |-> "user:typing", to |-> to, userId |-> userId,
     status |-> "typing", at |-> Null, conversationId |-> conversationId]

\* The connected sockets whose handshake carried userId u.
LiveHandles(u) ==
    {s \in SocketIds : sockets[s].state = "connected" /\ sockets[s].userId = u}

\* io.on(CONNECT): socket s connects with handshake userId u (or none).
Connect(s, u) ==
    /\ sockets[s].state = "fresh"
    /\ sockets' = [sockets EXCEPT ![s] = [state |-> "connected", userId |-> u]]
    /\ IF u # NoUser
       THEN /\ activeUsers' = [activeUsers EXCEPT ![u] = s]
            /\ emitted' = {Emit("user:online", Broadcast, u, "online", clock)}
       ELSE /\ activeUsers' = activeUsers
            /\ emitted' = {}
    /\ handled' = Handled("connection", s, NoUser)
    /\ UNCHANGED <<blockedUsers, msgVars, convVars, utilVars>>

\* A typing handler that emits to every connected socket.
UserTyping_Broadcast(s, conversationId, receiverId) ==
    /\ handled' = Handled("user:typing", s, receiverId)
    /\ sockets[s].state = "connected"
    /\ emitted' = {EmitTyping(Broadcast, sockets[s].userId, conversationId)}
    /\ UNCHANGED <<sockets, activeUsers, blockedUsers, msgVars, convVars, utilVars>>

\* socket.on(USER_TYPING) on socket s with data {conversationId, receiverId}.
UserTyping(s, conversationId, receiverId) ==
    /\ handled' = Handled("user:typing", s, receiverId)
    /\ sockets[s].state = "connected"
    /\ LET receiverSocketId == activeUsers[receiverId]
       IN  emitted' = IF receiverSocketId # NoSocket
                      THEN {EmitTyping(receiverSocketId, sockets[s].userId,
                                       conversationId)}
                      ELSE {}
    /\ UNCHANGED <<sockets, activeUsers, blockedUsers, msgVars, convVars, utilVars>>

\* POST /api/user/block/:userId by user a: b joins a's blockedUsers.
BlockUser(a, b) ==
    /\ a # b
    /\ blockedUsers' = [blockedUsers EXCEPT ![a] = @ \cup {b}]
    /\ UNCHANGED <<sockets, activeUsers, emitted, handled, msgVars, convVars, utilVars>>

\* A message:send handler that emits without checking receiverSocketId.
MessageSend_NoCheck(s, receiverId, content) ==
    /\ sockets[s].state = "connected"
    /\ emitted' = {EmitMessage(activeUsers[receiverId], receiverId, content)}
    /\ handled' = Handled("message:send", s, receiverId)
    /\ UNCHANGED <<sockets, activeUsers, blockedUsers, msgVars, convVars, utilVars>>

\* socket.on(MESSAGE_SEND) on socket s with data.receiverId = receiverId
\* and data.content of the given length.
MessageSend(s, receiverId, content) ==
    /\ sockets[s].state = "connected"
    /\ LET receiverSocketId == activeUsers[receiverId]
       IN  emitted' = IF receiverSocketId # NoSocket
                      THEN {EmitMessage(receiverSocketId, receiverId, content)}
                      ELSE {}
    /\ handled' = Handled("message:send", s, receiverId)
    /\ UNCHANGED <<sockets, activeUsers, blockedUsers, msgVars, convVars, utilVars>>

\* A disconnect handler that leaves the activeUsers entry in place.
Disconnect_NoDelete(s) ==
    /\ sockets[s].state = "connected"
    /\ sockets' = [sockets EXCEPT ![s].state = "closed"]
    /\ activeUsers' = activeUsers
    /\ emitted' = {Emit("user:offline", Broadcast, sockets[s].userId,
                        "offline", clock)}
    /\ handled' = Handled("disconnect", s, NoUser)
    /\ UNCHANGED <<blockedUsers, msgVars, convVars, utilVars>>

\* socket.on(DISCONNECT) of socket s.
Disconnect(s) ==
    /\ sockets[s].state = "connected"
    /\ sockets' = [sockets EXCEPT ![s].state = "closed"]
    /\ activeUsers' = [u \in Users |->
                          IF u = sockets[s].userId THEN NoSocket
                          ELSE activeUsers[u]]
    /\ emitted' = {Emit("user:offline", Broadcast, sockets[s].userId,
                        "offline", clock)}
    /\ handled' = Handled("disconnect", s, NoUser)
    /\ UNCHANGED <<blockedUsers, msgVars, convVars, utilVars>>

(* ---------------------------------------------------------------------- *)
(* Validation: sendMessageSchema and the validate helper                   *)
(* ---------------------------------------------------------------------- *)
\* The key is absent from the data.
Missing == "missing"
\* data.content is absent (content is otherwise given by its length).
NoContent == -1
\* receiverId: absent, a string, or a value of another type.
ReceiverIdValues == {Missing, "string", "number"}
\* content: absent, "", one character, the longest allowed, one more.
ContentValues == {NoContent, 0, 1, MaxContentLength, MaxContentLength + 1}
\* messageType: absent, the four valid values, another string.
MessageTypes == {"text", "image", "emoji", "file"}
MessageTypeValues == {Missing, "video"} \cup MessageTypes
\* imageUrl: absent, a URL, a string that is no URL.
ImageUrlValues == {Missing, "url", "text"}

SendMessageData ==
    [receiverId : ReceiverIdValues, content : ContentValues,
     messageType : MessageTypeValues, imageUrl : ImageUrlValues]

Detail(path, message) == [path |-> path, message |-> message]

\* sendMessageSchema.validate(data, {abortEarly: false, stripUnknown: true}):
\* error.details holds one entry per key that breaks its rule, in the order
\* of the keys (<<>> stands for no error); value is the data with the
\* default of messageType filled in.
sendMessageSchema ==
  [data \in SendMessageData |->
    [error |->
        (IF data.receiverId = "number"
         THEN <<Detail("receiverId", "must be a string")>> ELSE <<>>)
        \o (CASE data.content = NoContent ->
                    <<Detail("content", "Message content is required")>>
              [] data.content = 0 ->
                    <<Detail("content", "is not allowed to be empty")>>
              [] data.content > MaxContentLength ->
                    <<Detail("content",
                             "Message content must not exceed 5000 characters")>>
              [] OTHER -> <<>>)
        \o (IF data.messageType \notin MessageTypes \cup {Missing}
            THEN <<Detail("messageType", "must be one of the valid types")>>
            ELSE <<>>)
        \o (IF data.imageUrl = "text"
            THEN <<Detail("imageUrl", "must be a valid uri")>> ELSE <<>>),
     value |-> [data EXCEPT !.messageType =
                   IF @ = Missing THEN "text" ELSE @]]]

\* validate(data, schema). With an error the details are mapped to
\* {field, message} and dropped, and {error: null, value} is returned (null
\* is written <<>>: no list of errors); without an error the function ends
\* without a return statement and the caller gets undefined.
validate(data, schema) ==
    LET result == schema[data]
        details == [i \in 1..Len(result.error) |->
                       [field |-> result.error[i].path,
                        message |-> result.error[i].message]]
    IN  IF result.error # <<>>
        THEN [fn |-> "validate", returns |-> "object", error |-> <<>>,
              value |-> result.value]
        ELSE [fn |-> "validate", returns |-> "undefined"]

\* validate(data, sendMessageSchema) is called with the data of the input.
Validate ==
    /\ input.fn = "validate"
    /\ output = NoOutput
    /\ output' = validate(input.data, sendMessageSchema)
    /\ UNCHANGED <<input, msgVars, convVars, presVars>>

(* ---------------------------------------------------------------------- *)
(* tokenUtil.js: JSON web tokens, times in seconds                         *)
(* ---------------------------------------------------------------------- *)
\* process.env.JWT_SECRET, and a key that is not the server's.
JWT_SECRET == "JWT_SECRET"
OtherSecret == "other"
\* ACCESS_TOKEN_EXPIRY = "15m", in seconds
ACCESS_TOKEN_EXPIRY == 900
\* "Access token expires in 7 days", in seconds
DocumentedAccessExpiry == 604800
\* The times at which tokens are issued.
IssueTimes == {0, 1}
\* The ages at which a token is verified: around both expiry times.
TokenAges ==
    {0, 1, ACCESS_TOKEN_EXPIRY - 1, ACCESS_TOKEN_EXPIRY,
     ACCESS_TOKEN_EXPIRY + 1, DocumentedAccessExpiry - 1,
     DocumentedAccessExpiry, DocumentedAccessExpiry + 1}
VerifyTimes == {iat + age : iat \in IssueTimes, age \in TokenAges}

\* jwt.sign(payload, secret, {expiresIn}) at time now: the claims iat and
\* exp are added to the payload and the token carries a signature made
\* with the secret.
sign(payload, secret, expiresIn, now) ==
    [format |-> "jwt", secret |-> secret,
     payload |-> [userId |-> payload.userId, type |-> payload.type,
                  iat |-> now, exp |-> now + expiresIn]]

\* A string that is not a JSON web token.
MalformedToken ==
    [format |-> "malformed", secret |-> OtherSecret,
     payload |-> [userId |-> NoUser, type |-> "none", iat |-> 0, exp |-> 0]]

\* jwt.verify(token, secret) at time now: the format and the signature are
\* checked first, then the exp claim (expired when now >= exp).
jwtVerify(token, secret, now) ==
    IF token.format # "jwt" \/ token.secret # secret
    THEN [error |-> "JsonWebTokenError"]
    ELSE IF now >= token.payload.exp
    THEN [error |-> "TokenExpiredError"]
    ELSE [error |-> "none", decoded |-> token.payload]

\* generateAccessToken(userId, email) at time now (the email is the
\* user's and is not modelled apart from the userId).
generateAccessToken(userId, email, now) ==
    sign([userId |-> userId, type |-> "access"], JWT_SECRET,
         ACCESS_TOKEN_EXPIRY, now)

\* A verifyToken that decodes the token without verifying it.
verifyToken_Decode(token, now) ==
    IF token.format = "jwt"
    THEN [fn |-> "verifyToken", threw |-> "none", payload |-> token.payload]
    ELSE [fn |-> "verifyToken", threw |-> "Invalid token"]

\* verifyToken(token) at time now: the decoded payload, or the error thrown.
verifyToken(token, now) ==
    LET result == jwtVerify(token, JWT_SECRET, now)
    IN  CASE result.error = "none" ->
                [fn |-> "verifyToken", threw |-> "none",
                 payload |-> result.decoded]
          [] result.error = "TokenExpiredError" ->
                [fn |-> "verifyToken", threw |-> "Token has expired"]
          [] result.error = "JsonWebTokenError" ->
                [fn |-> "verifyToken", threw |-> "Invalid token"]
          [] OTHER ->
                [fn |-> "verifyToken", threw |-> result.error]

\* The tokens presented to verifyToken: access tokens of the server, the
\* same tokens signed with another key, and a malformed one.
Tokens ==
    {generateAccessToken(u, u, t) : u \in Users, t \in IssueTimes}
    \cup {sign([userId |-> u, type |-> "access"], OtherSecret,
                ACCESS_TOKEN_EXPIRY, t) : u \in Users, t \in IssueTimes}
    \cup {MalformedToken}

\* generateAccessToken(userId, email) is called at the issue time of the
\* input; the token goes to a client, who presents it at the time now.
GenerateAccessToken ==
    /\ input.fn = "generateAccessToken"
    /\ input' = [fn |-> "verifyToken",
                 token |-> generateAccessToken(input.userId, input.email,
                                               input.issued),
                 now |-> input.now]
    /\ output' = [fn |-> "generateAccessToken"]
    /\ UNCHANGED <<msgVars, convVars, presVars>>

\* verifyToken(token) is called with the token of the input.
VerifyToken ==
    /\ input.fn = "verifyToken"
    /\ output.fn # "verifyToken"
    /\ output' = verifyToken(input.token, input.now)
    /\ UNCHANGED <<input, msgVars, convVars, presVars>>

\* The collections, the registry and the clock after start-up.
InitStores ==
    /\ msgs = <<>>
    /\ docs = [d \in Docs |-> NoDoc]
    /\ clock = 1
    /\ lastCall = Called("none", 0)
    /\ conversations = <<>>
    /\ calls = [p \in Procs |-> IdleCall]
    /\ resolved = <<>>
    /\ returned = Returned("none", NoUser, DocumentResult(0))
    /\ sockets = [s \in SocketIds |-> [state |-> "fresh", userId |-> NoUser]]
    /\ activeUsers = [u \in Users |-> NoSocket]
    /\ emitted = {}
    /\ handled = Handled("none", NoSocket, NoUser)
    /\ blockedUsers = [u \in Users |-> {}]

Init ==
    /\ InitStores
    /\ input = NoInput
    /\ output = NoOutput

\* Message status operations applied one after another. The clock stands
\* still here: this specification is for properties of the status alone.
NextStatusSeq ==
    \/ \E c \in ConvIds, r \in Users : CreateMessage(c, r)
    \/ \E m \in MsgIds : SeqMarkAsDelivered(m)
    \/ \E m \in MsgIds : SeqMarkAsRead(m)
    \/ \E c \in ConvIds, u \in Users : MarkConversationAsRead(c, u)

SpecStatusSeq == Init /\ [][NextStatusSeq]_vars

\* Message status operations through concurrently held documents.
NextStatusConc ==
    \/ Tick
    \/ \E c \in ConvIds, r \in Users :
          Len(msgs) < MaxConcMsgs /\ CreateMessage(c, r)
    \/ \E d \in Docs, m \in MsgIds : FindById(d, m)
    \/ \E d \in Docs : MarkAsDelivered(d)
    \/ \E d \in Docs : MarkAsRead(d)
    \/ \E c \in ConvIds, u \in Users : MarkConversationAsRead(c, u)

SpecStatusConc == Init /\ [][NextStatusConc]_vars

\* Message status operations applied one after another while time passes.
NextStatusTimed ==
    \/ Tick
    \/ \E c \in ConvIds, r \in Users :
          Len(msgs) < MaxTimedMsgs /\ CreateMessage(c, r)
    \/ \E m \in MsgIds : SeqMarkAsDelivered(m)
    \/ \E m \in MsgIds : SeqMarkAsRead(m)
    \/ \E c \in ConvIds, u \in Users : MarkConversationAsRead(c, u)

SpecStatusTimed == Init /\ [][NextStatusTimed]_vars

\* The messages of one conversation are sent, delivered, read and deleted,
\* one call after another (getUnreadCount does not look at the conversation).
NextUnread ==
    \/ \E r \in Users : CreateMessage(1, r)
    \/ \E m \in MsgIds : SeqMarkAsDelivered(m)
    \/ \E m \in MsgIds : SeqMarkAsRead(m)
    \/ \E m \in MsgIds : SoftDelete(m)

SpecUnread == Init /\ [][NextUnread]_vars

\* Messages are sent and whole conversations are marked read, one call
\* after another.
NextConvRead ==
    \/ \E c \in ConvIds, r \in Users : CreateMessage(c, r)
    \/ \E c \in ConvIds, u \in Users : MarkConversationAsRead(c, u)

SpecConvRead == Init /\ [][NextConvRead]_vars

\* Reactions are added to and removed from one message, one call after
\* another (the reaction methods do not look at the conversation).
NextReactions ==
    \/ /\ msgs = <<>>
       /\ \E r \in Users, reactions \in InitialReactions :
             CreateWithReactions(1, r, reactions)
    \/ \E m \in MsgIds, u \in Users, e \in Emojis : SeqAddReaction(m, u, e)
    \/ \E m \in MsgIds, u \in Users, e \in Emojis : SeqRemoveReaction(m, u, e)

SpecReactions == Init /\ [][NextReactions]_vars

\* Callers load one message into their own documents and add or remove a
\* reaction, one call for each document, in any interleaving.
NextReactConc ==
    \/ /\ msgs = <<>>
       /\ \E r \in Users, reactions \in InitialReactions :
             CreateWithReactions(1, r, reactions)
    \/ \E d \in Docs, m \in MsgIds : docs[d] = NoDoc /\ FindById(d, m)
    \/ \E d \in Docs, u \in Users, e \in Emojis : AddReaction(d, u, e)
    \/ \E d \in Docs, u \in Users, e \in Emojis : RemoveReaction(d, u, e)

SpecReactConc == Init /\ [][NextReactConc]_vars

\* Reactions are added to and removed from newly created messages, one call
\* after another.
NextNewReactions ==
    \/ \E c \in ConvIds, r \in Users : CreateMessage(c, r)
    \/ \E m \in MsgIds, u \in Users, e \in Emojis : SeqAddReaction(m, u, e)
    \/ \E m \in MsgIds, u \in Users, e \in Emojis : SeqRemoveReaction(m, u, e)

SpecNewReactions == Init /\ [][NextNewReactions]_vars

\* findOrCreateConversation calls for one pair of distinct users, in either
\* argument order, one after another.
NextPairSeq ==
    \E a \in Users, b \in Users :
        a # b /\ OnlyPairCalled(a, b) /\ SeqFindOrCreateConversation(a, b)

SpecPairSeq == Init /\ [][NextPairSeq]_vars

\* Concurrent findOrCreateConversation calls.
NextConvConc ==
    \/ \E p \in Procs, a \in Users, b \in Users : CallFindOrCreate(p, a, b)
    \/ \E p \in Procs : FindOneStep(p)
    \/ \E p \in Procs : CreateStep(p)

SpecConvConc == Init /\ [][NextConvConc]_vars

\* The socket handler while users block one another.
NextBlocked ==
    \/ \E s \in SocketIds, u \in Users : Connect(s, u)
    \/ \E a \in Users, b \in Users : BlockUser(a, b)
    \/ \E s \in SocketIds, r \in Users : MessageSend(s, r, MaxContentLength)

SpecBlocked == Init /\ [][NextBlocked]_vars

\* The socket handler: connections, disconnections and typing events, all
\* of them about conversation 1 (the handler passes the id on unread).
NextTyping ==
    \/ \E s \in SocketIds, u \in Users \cup {NoUser} : Connect(s, u)
    \/ \E s \in SocketIds, r \in Users : UserTyping(s, 1, r)
    \/ \E s \in SocketIds : Disconnect(s)

SpecTyping == Init /\ [][NextTyping]_vars

\* One conversation is created; users mute, unmute, archive and unarchive
\* it, one call after another.
NextToggle ==
    \/ \E a \in Users, b \in Users :
          resolved = <<>> /\ SeqFindOrCreateConversation(a, b)
    \/ \E i \in DOMAIN conversations, u \in Users : ToggleMute(i, u)
    \/ \E i \in DOMAIN conversations, u \in Users : ToggleArchive(i, u)

SpecToggle == Init /\ [][NextToggle]_vars

\* One conversation of two users is created and its participants mute and
\* archive it, one call after another; then processes load the conversation
\* and each toggles once through its copy, in any interleaving.
NextToggleConc ==
    \/ \E a \in Users, b \in Users :
          resolved = <<>> /\ a # b /\ SeqFindOrCreateConversation(a, b)
    \/ \E i \in DOMAIN conversations, u \in Users :
          /\ \A p \in Procs : calls[p].pc = "idle"
          /\ u \in Elems(conversations[i].participants)
          /\ ~isMutedFor(conversations[i], u)
          /\ ToggleMute(i, u)
    \/ \E i \in DOMAIN conversations, u \in Users :
          /\ \A p \in Procs : calls[p].pc = "idle"
          /\ u \in Elems(conversations[i].participants)
          /\ ~isArchivedFor(conversations[i], u)
          /\ ToggleArchive(i, u)
    \/ \E p \in Procs, i \in DOMAIN conversations : LoadConversation(p, i)
    \/ \E p \in Procs, u \in Users : ToggleMuteCopy(p, u)
    \/ \E p \in Procs, u \in Users : ToggleArchiveCopy(p, u)

SpecToggleConc == Init /\ [][NextToggleConc]_vars

\* One conversation is created; users archive and unarchive it and list
\* their conversations, one call after another.
NextUserConvs ==
    \/ \E a \in Users, b \in Users :
          resolved = <<>> /\ SeqFindOrCreateConversation(a, b)
    \/ \E i \in DOMAIN conversations, u \in Users : ToggleArchive(i, u)
    \/ \E u \in Users : GetUserConversations(u)

SpecUserConvs == Init /\ [][NextUserConvs]_vars

\* The socket handler: connections, disconnections and message:send events.
NextPresence ==
    \/ \E s \in SocketIds, u \in Users \cup {NoUser} : Connect(s, u)
    \/ \E s \in SocketIds, r \in Users, content \in ContentLengths :
          MessageSend(s, r, content)
    \/ \E s \in SocketIds : Disconnect(s)

SpecPresence == Init /\ [][NextPresence]_vars

\* getOtherParticipant is called once, on any conversation for any user.
InitOther ==
    /\ InitStores
    /\ input \in [fn : {"getOtherParticipant"}, conv : ParticipantLists,
                   userId : Users]
    /\ output = NoOutput

NextOther == GetOtherParticipant

SpecOther == InitOther /\ [][NextOther]_vars

\* validate is called once, with any data for the send-message schema.
InitValidate ==
    /\ InitStores
    /\ input \in [fn : {"validate"}, data : SendMessageData]
    /\ output = NoOutput

NextValidate == Validate

SpecValidate == InitValidate /\ [][NextValidate]_vars

\* verifyToken is called once, with any token at any time.
InitVerify ==
    /\ InitStores
    /\ input \in [fn : {"verifyToken"}, token : Tokens, now : VerifyTimes]
    /\ output = NoOutput

NextVerify == VerifyToken

SpecVerify == InitVerify /\ [][NextVerify]_vars

\* An access token is generated for a user and verified at a later time.
InitAccessToken ==
    /\ InitStores
    /\ \E u \in Users, t \in IssueTimes, age \in TokenAges :
          input = [fn |-> "generateAccessToken", userId |-> u, email |-> u,
                   issued |-> t, now |-> t + age]
    /\ output = NoOutput

NextAccessToken ==
    \/ GenerateAccessToken
    \/ VerifyToken

SpecAccessToken == InitAccessToken /\ [][NextAccessToken]_vars

Rank(s) == CASE s = SENT -> 0 [] s = DELIVERED -> 1 [] s = READ -> 2

\* C1: applied one after another, markAsDelivered / markAsRead /
\* markConversationAsRead never move a stored status backward in
\* sent < delivered < read, and a read message stays read.
StatusMonotonicSeq ==
    [][\A m \in MsgIds : Rank(msgs[m].status) <= Rank(msgs'[m].status)]_vars

\* C1 witness: the last call was markAsDelivered on a message that is read
\* (markAsDelivered never stores read, so it was read when called).
DeliveredAfterReadKeepsRead ==
    /\ lastCall.op = "markAsDelivered"
    /\ msgs[lastCall.id].status = READ

\* C2: under concurrently loaded copies a stored read is never turned back
\* into delivered (or sent): the stored status ends as read.
StoredReadNeverRegresses ==
    [][\A m \in MsgIds : msgs[m].status = READ => msgs'[m].status = READ]_vars

AtMostOneConversationPerPair ==
    \A a \in Users, b \in Users : Cardinality(ConversationsOf(a, b)) <= 1

\* C4 witness: two calls for the same pair of distinct users both looked up
\* before either created; both have finished, one created the conversation
\* and the create of the other was rejected.
RacedCallsFinished ==
    \E p \in Procs, q \in Procs :
        /\ p # q
        /\ calls[p].pc = "returned"
        /\ calls[q].pc = "thrown"
        /\ calls[p].userId1 # calls[p].userId2
        /\ {calls[p].userId1, calls[p].userId2} = {calls[q].userId1, calls[q].userId2}
        /\ ConversationsOf(calls[p].userId1, calls[p].userId2) = {calls[p].result}
        /\ conversations[calls[p].result].createdBy = calls[p].userId1

\* C5: a call that lost the creation race for its pair recovers by looking
\* the conversation up again and returns it: once the pair's conversation
\* exists, a finished call for the pair has returned it and has not thrown.
ConflictNeverSurfaced ==
    \A p \in Procs :
        (/\ calls[p].pc \in {"returned", "thrown"}
         /\ calls[p].userId1 # calls[p].userId2
         /\ ConversationsOf(calls[p].userId1, calls[p].userId2) # {})
        => /\ calls[p].pc = "returned"
           /\ calls[p].result \in ConversationsOf(calls[p].userId1, calls[p].userId2)

\* C6: a user with at least one connected session handle is in the registry
\* and is not reported offline.
OnlineWhileHandleConnected ==
    \A u \in Users :
        LiveHandles(u) # {} =>
            /\ activeUsers[u] # NoSocket
            /\ \A e \in emitted : ~(e.event = "user:offline" /\ e.userId = u)

\* C7: a user none of whose session handles is connected has no entry in
\* the registry.
NoEntryWithoutLiveHandle ==
    \A u \in Users : LiveHandles(u) = {} => activeUsers[u] = NoSocket

\* C7 witness: a user connected on two handles and both have disconnected.
BothHandlesDisconnected ==
    \E u \in Users, s \in SocketIds, t \in SocketIds :
        /\ s # t
        /\ sockets[s] = [state |-> "closed", userId |-> u]
        /\ sockets[t] = [state |-> "closed", userId |-> u]
        /\ LiveHandles(u) = {}
        /\ handled.event = "disconnect"

\* C8: 'online' is broadcast only when the user's first handle registers
\* and 'offline' only when the user's last handle is removed.
BroadcastOnlyOnPresenceChange ==
    \A e \in emitted :
        /\ e.event = "user:online" => LiveHandles(e.userId) = {handled.socket}
        /\ (e.event = "user:offline" /\ e.userId # NoUser) =>
              LiveHandles(e.userId) = {}

\* C9: a message sent to a receiver with a connected session handle is
\* pushed to every connected handle of the receiver and is stored with
\* status delivered and deliveredAt set when the send completes.
SendDeliversToEveryHandle ==
    (handled.event = "message:send" /\ LiveHandles(handled.receiverId) # {}) =>
        /\ \A s \in LiveHandles(handled.receiverId) :
              \E e \in emitted : e.event = "message:receive" /\ e.to = s
        /\ \E m \in MsgIds :
              /\ msgs[m].receiverId = handled.receiverId
              /\ msgs[m].status = DELIVERED
              /\ msgs[m].deliveredAt # Null

\* C10: status delivered is reported only in a message:receive pushed to a
\* connected session handle of the receiver; a send to a receiver without
\* a connected handle emits nothing, and the send stores no message as
\* delivered.
NoFalseDelivered ==
    /\ \A e \in emitted :
          e.status = "delivered" =>
              e.event = "message:receive" /\ e.to \in LiveHandles(e.userId)
    /\ (handled.event = "message:send" /\ LiveHandles(handled.receiverId) = {})
          => emitted = {}
    /\ \A m \in MsgIds : msgs[m].status # DELIVERED

\* C10 witness: a message was sent to a receiver all of whose handles had
\* disconnected, and nothing was pushed.
SentToUserWithoutHandle ==
    /\ handled.event = "message:send"
    /\ LiveHandles(handled.receiverId) = {}
    /\ \E s \in SocketIds :
          sockets[s] = [state |-> "closed", userId |-> handled.receiverId]
    /\ emitted = {}

\* C11: a message sent while the receiver has no connected session is
\* stored with status sent (and stays sent until the receiver reads it).
OfflineSendStoredAsSent ==
    (handled.event = "message:send" /\ LiveHandles(handled.receiverId) = {}) =>
        \E m \in MsgIds :
            /\ msgs[m].receiverId = handled.receiverId
            /\ msgs[m].status = SENT

\* C12: message:receive is pushed only for a message that has been created
\* in the message store.
PushOnlyForStoredMessage ==
    \A e \in emitted :
        e.event = "message:receive" =>
            \E m \in MsgIds : msgs[m].receiverId = e.userId

\* C13: every message:send yields a response to the sender: when the handler
\* has run, an acknowledgment or a failure has been emitted to the sending
\* socket.
SendAnswersSender ==
    handled.event = "message:send" =>
        \E e \in emitted : e.to = handled.socket

\* C14: markAsDelivered changes a message only when its status is sent, and
\* then sets status delivered and deliveredAt to the current time; on a
\* delivered or read message it changes nothing (so a second call in a row
\* leaves status and deliveredAt as the first call left them). No other
\* message is touched.
MarkAsDeliveredOnlyFromSent ==
    [][\A m \in MsgIds :
          SeqMarkAsDelivered(m) =>
              /\ \A k \in MsgIds : k # m => msgs'[k] = msgs[k]
              /\ IF msgs[m].status = SENT
                 THEN msgs'[m] = [msgs[m] EXCEPT !.status = DELIVERED,
                                                  !.deliveredAt = clock]
                 ELSE msgs'[m] = msgs[m]]_vars

\* C14 witness: the message was delivered at one time and read at a later
\* time, and markAsDelivered has since been called on it again: status,
\* deliveredAt and readAt are as they were.
MarkAsDeliveredRepeated ==
    /\ lastCall.op = "markAsDelivered"
    /\ msgs[lastCall.id].status = READ
    /\ msgs[lastCall.id].deliveredAt # Null
    /\ msgs[lastCall.id].deliveredAt < msgs[lastCall.id].readAt

\* C15: in every execution a stored deliveredAt, once non-null, is never
\* changed again, and a stored readAt, once non-null, is never changed again.
TimestampsWrittenOnce ==
    [][\A m \in MsgIds :
          /\ msgs[m].deliveredAt # Null => msgs'[m].deliveredAt = msgs[m].deliveredAt
          /\ msgs[m].readAt # Null => msgs'[m].readAt = msgs[m].readAt]_vars

\* The stored messages of conversation c that are addressed to user u.
AddressedIn(c, u) ==
    {m \in MsgIds : msgs[m].conversationId = c /\ msgs[m].receiverId = u}

Unread(u) ==
    {m \in MsgIds :
        /\ msgs[m].receiverId = u
        /\ ~msgs[m].isDeleted
        /\ msgs[m].status # READ}

UnreadZeroAfterAnyConversationRead ==
    [][\A c \in ConvIds, r \in Users :
          MarkConversationAsRead(c, r) => getUnreadCount(msgs', r) = 0]_vars

\* C18: when every message sent to user r since r had no unread message
\* that is still unread and not deleted belongs to conversation c, then
\* after markConversationAsRead(c, r) getUnreadCount(r) is 0.
UnreadZeroAfterConversationRead ==
    [][\A c \in ConvIds, r \in Users :
          (/\ MarkConversationAsRead(c, r)
           /\ \A m \in Unread(r) : msgs[m].conversationId = c)
              => getUnreadCount(msgs', r) = 0]_vars

\* C18 witness: two messages were sent to one user in one conversation, the
\* conversation was marked read, both are read and the user's count is 0.
CountZeroAfterTwoMessages ==
    /\ lastCall.op = "markConversationAsRead"
    /\ Len(msgs) = 2
    /\ msgs[1].receiverId = msgs[2].receiverId
    /\ \A m \in MsgIds :
          /\ msgs[m].conversationId = lastCall.id
          /\ msgs[m].status = READ
          /\ ~msgs[m].isDeleted
    /\ getUnreadCount(msgs, msgs[1].receiverId) = 0

\* C19: addReaction(u, e) on a message whose reactions do not contain the
\* pair (u, e) appends it: afterwards the list is the earlier list, in its
\* earlier order, followed by (u, e), which it so contains exactly once.
AddReactionAppendsNewPair ==
    [][\A m \in MsgIds, u \in Users, e \in Emojis :
          (/\ SeqAddReaction(m, u, e)
           /\ ~existingReaction(msgs[m].reactions, u, e))
              => msgs'[m].reactions =
                     Append(msgs[m].reactions, Reaction(u, e))]_vars

\* C20: addReaction(u, e) on a message whose reactions already contain the
\* pair (u, e) leaves the reaction list, and so its length, unchanged.
AddReactionOfExistingPairIsNoOp ==
    [][\A m \in MsgIds, u \in Users, e \in Emojis :
          (/\ SeqAddReaction(m, u, e)
           /\ existingReaction(msgs[m].reactions, u, e))
              => msgs'[m].reactions = msgs[m].reactions]_vars

OtherEntries(old, u, e) == {i \in 1..Len(old) : old[i] # Reaction(u, e)}

\* List new is list old without its entries for (u, e): it has one entry
\* for each other position of old, in the order of those positions.
KeepsOthersInOrder(old, new, u, e) ==
    /\ Len(new) = Cardinality(OtherEntries(old, u, e))
    /\ \A i \in OtherEntries(old, u, e) :
          new[Cardinality({j \in OtherEntries(old, u, e) : j <= i})] = old[i]

\* C22: removeReaction(u, e) leaves the message with no entry for (u, e) and
\* keeps every other entry in the same relative order; when the pair is
\* absent the list is unchanged.
RemoveReactionRemovesOnlyThePair ==
    [][\A m \in MsgIds, u \in Users, e \in Emojis :
          SeqRemoveReaction(m, u, e) =>
              /\ ~existingReaction(msgs'[m].reactions, u, e)
              /\ KeepsOthersInOrder(msgs[m].reactions, msgs'[m].reactions, u, e)
              /\ ~existingReaction(msgs[m].reactions, u, e)
                    => msgs'[m].reactions = msgs[m].reactions]_vars

\* C22 witness: removeReaction was the last call on a message and one
\* reaction entry is left on it.
OneReactionLeftAfterRemove ==
    /\ lastCall.op = "removeReaction"
    /\ Len(msgs[lastCall.id].reactions) = 1

\* The reactions list a reaction call leaves when it runs alone on a list.
Applied(reactions, call) ==
    IF call.kind = "addReaction"
    THEN addReaction(reactions, call.userId, call.emoji)
    ELSE removeReaction(reactions, call.userId, call.emoji)

\* C23: when the only two reaction calls made on a message ran on copies
\* that held the same loaded list, the stored list after both is the result
\* of the two calls applied one after the other in some order.
ConcurrentReactionsSerializable ==
    \A d1 \in Docs, d2 \in Docs :
        (/\ d1 # d2
         /\ docs[d1].call # NoCall /\ docs[d2].call # NoCall
         /\ docs[d1].id = docs[d2].id
         /\ docs[d1].call.found = docs[d2].call.found
         /\ \A d3 \in Docs \ {d1, d2} : docs[d3].call = NoCall)
            => \/ msgs[docs[d1].id].reactions =
                     Applied(Applied(docs[d1].call.found, docs[d1].call),
                             docs[d2].call)
               \/ msgs[docs[d1].id].reactions =
                     Applied(Applied(docs[d1].call.found, docs[d2].call),
                             docs[d1].call)

\* C24: the conversation findOrCreateConversation(A, B) returns is a direct
\* conversation whose participants are exactly A and B, also when A = B.
ReturnedConversationIsThePair ==
    \A p \in Procs :
        calls[p].pc = "returned" =>
            /\ conversations[calls[p].result].type = "direct"
            /\ Elems(conversations[calls[p].result].participants) =
                  {calls[p].userId1, calls[p].userId2}

\* C25: every stored direct conversation has exactly two participants, in
\* the order of their id strings.
ParticipantsSorted ==
    \A i \in DOMAIN conversations :
        conversations[i].type = "direct" =>
            /\ Len(conversations[i].participants) = 2
            /\ Precedes(conversations[i].participants[1],
                        conversations[i].participants[2])

\* C25 witness: a conversation created by a call whose first argument is
\* the later id of the two is stored with that id second.
CreatedInReverseOrder ==
    \E i \in DOMAIN conversations :
        /\ conversations[i].createdBy = conversations[i].participants[2]
        /\ conversations[i].participants[1] # conversations[i].participants[2]

\* The number of entries of array that are x.
Occurrences(array, x) == Cardinality({i \in DOMAIN array : array[i] = x})

\* C26: toggleMute(u) (toggleArchive(u)) flips u's membership in mutedBy
\* (archivedBy) as isMutedFor(u) (isArchivedFor(u)) shows it, returns the
\* new boolean state, leaves u in the array at most once, and a second
\* toggle by u restores the membership.
ToggleFlipsAndReturnsState ==
    [][\A i \in DOMAIN conversations, u \in Users :
          /\ ToggleMute(i, u) =>
                /\ isMutedFor(conversations'[i], u) = ~isMutedFor(conversations[i], u)
                /\ Occurrences(conversations'[i].mutedBy, u) <= 1
                /\ isMutedFor(toggleMute(conversations'[i], u), u)
                      = isMutedFor(conversations[i], u)
                /\ returned'.result.kind = "boolean"
                /\ returned'.result.bool = isMutedFor(conversations'[i], u)
          /\ ToggleArchive(i, u) =>
                /\ isArchivedFor(conversations'[i], u)
                      = ~isArchivedFor(conversations[i], u)
                /\ Occurrences(conversations'[i].archivedBy, u) <= 1
                /\ isArchivedFor(toggleArchive(conversations'[i], u), u)
                      = isArchivedFor(conversations[i], u)
                /\ returned'.result.kind = "boolean"
                /\ returned'.result.bool = isArchivedFor(conversations'[i], u)]_vars

LongContentRejected ==
    [][\A s \in SocketIds, r \in Users, content \in ContentLengths :
          (MessageSend(s, r, content) /\ content > MaxContentLength) =>
              /\ \A e \in emitted' : e.event # "message:receive"
              /\ conversations' = conversations
              /\ msgs' = msgs]_vars

\* User a has blocked user b or b has blocked a.
Blocked(a, b) == b \in blockedUsers[a] \/ a \in blockedUsers[b]

\* C29: while the sender has blocked the receiver or the receiver has
\* blocked the sender, a send from that sender to that receiver fails
\* before any mutation: no conversation or message is created and no
\* message:receive is pushed to the receiver.
NoSendBetweenBlockedUsers ==
    [][\A s \in SocketIds, r \in Users, content \in ContentLengths :
          (/\ MessageSend(s, r, content)
           /\ sockets[s].userId # NoUser
           /\ Blocked(sockets[s].userId, r)) =>
              /\ \A e \in emitted' : e.event # "message:receive"
              /\ conversations' = conversations
              /\ msgs' = msgs]_vars

ValidateReportsViolations ==
    output.fn = "validate" =>
        LET result == sendMessageSchema[input.data]
        IN  /\ output.returns = "object"
            /\ (result.error # <<>>) <=> (output.error # <<>>)
            /\ (result.error = <<>>) => (output.value = result.value)

\* A token that carries a signature made with the server secret.
SignedByServer(token) == token.format = "jwt" /\ token.secret = JWT_SECRET

\* C32: verifyToken returns the decoded payload only for a token signed
\* with the server secret that has not expired; for such a token that has
\* expired it throws 'Token has expired', for a malformed or wrongly signed
\* token it throws 'Invalid token'.
VerifyTokenAcceptsOnlyValidTokens ==
    output.fn = "verifyToken" =>
        LET token == input.token
            expired == input.now >= token.payload.exp
        IN  /\ output.threw = "none" =>
                  /\ SignedByServer(token)
                  /\ ~expired
                  /\ output.payload = token.payload
            /\ (SignedByServer(token) /\ ~expired) => output.threw = "none"
            /\ (SignedByServer(token) /\ expired) =>
                  output.threw = "Token has expired"
            /\ ~SignedByServer(token) => output.threw = "Invalid token"

\* C32 witness: a token of the server was verified at the very second of
\* its expiry and 'Token has expired' was thrown.
ExpiredTokenRejected ==
    /\ output.fn = "verifyToken"
    /\ SignedByServer(input.token)
    /\ input.now = input.token.payload.exp
    /\ output.threw = "Token has expired"

\* C33: a token of generateAccessToken is accepted at every time up to
\* 7 days after it was issued and rejected as expired at every later time.
AccessTokenValidForSevenDays ==
    (output.fn = "verifyToken" /\ SignedByServer(input.token)) =>
        LET age == input.now - input.token.payload.iat
        IN  /\ age <= DocumentedAccessExpiry => output.threw = "none"
            /\ age > DocumentedAccessExpiry =>
                  output.threw = "Token has expired"

\* C34: markConversationAsRead(c, r) changes only messages of conversation
\* c whose receiver is r and whose status is not read: every other message
\* (another conversation, another receiver, already read) keeps its
\* status, deliveredAt and readAt.
MarkConversationAsReadFrame ==
    [][\A c \in ConvIds, u \in Users :
          MarkConversationAsRead(c, u) =>
              \A m \in MsgIds :
                  (\/ msgs[m].conversationId # c
                   \/ msgs[m].receiverId # u
                   \/ msgs[m].status = READ) =>
                      /\ msgs'[m].status = msgs[m].status
                      /\ msgs'[m].deliveredAt = msgs[m].deliveredAt
                      /\ msgs'[m].readAt = msgs[m].readAt]_vars

\* C34 witness: markConversationAsRead was called last, on the conversation
\* of a message that had been read at an earlier time, and the message has
\* kept its readAt.
ReadMessageKeptReadAt ==
    /\ lastCall.op = "markConversationAsRead"
    /\ \E m \in MsgIds :
          /\ msgs[m].conversationId = lastCall.id
          /\ msgs[m].status = READ
          /\ msgs[m].readAt # Null
          /\ msgs[m].readAt < clock

\* C35: in every reachable state the timestamps of a stored message agree
\* with its status: readAt is non-null exactly when the status is read,
\* delivered implies a non-null deliveredAt, sent implies that both are
\* null; hence isRead is true exactly when the status is read.
TimestampsAgreeWithStatus ==
    \A m \in MsgIds :
        /\ (msgs[m].readAt # Null) <=> (msgs[m].status = READ)
        /\ msgs[m].status = DELIVERED => msgs[m].deliveredAt # Null
        /\ msgs[m].status = SENT =>
              (msgs[m].deliveredAt = Null /\ msgs[m].readAt = Null)
        /\ isRead(msgs[m]) <=> (msgs[m].status = READ)

\* C36: a user can have direct conversations with several peers: the
\* unique index rejects only a second conversation for the same pair, so a
\* findOrCreateConversation call for distinct users throws only when a
\* conversation of exactly that pair is stored.
IndexRejectsOnlySamePair ==
    \A p \in Procs :
        (calls[p].pc = "thrown" /\ calls[p].userId1 # calls[p].userId2) =>
            ConversationsOf(calls[p].userId1, calls[p].userId2) # {}

\* The users that occur in array.
Members(array) == {array[k] : k \in DOMAIN array}

\* C37: toggleMute(u) changes nothing but u's membership in mutedBy, and
\* toggleArchive(u) nothing but u's membership in archivedBy: the other
\* array, the membership of the other users, the participants, lastMessage
\* and lastMessageTime of the conversation, and every other conversation,
\* are unchanged.
ToggleFrame ==
    [][\A i \in DOMAIN conversations, u \in Users :
          /\ ToggleMute(i, u) =>
                /\ conversations'[i] =
                      [conversations[i] EXCEPT
                          !.mutedBy = conversations'[i].mutedBy]
                /\ Members(conversations'[i].mutedBy) \ {u} =
                      Members(conversations[i].mutedBy) \ {u}
                /\ \A j \in DOMAIN conversations :
                      j # i => conversations'[j] = conversations[j]
          /\ ToggleArchive(i, u) =>
                /\ conversations'[i] =
                      [conversations[i] EXCEPT
                          !.archivedBy = conversations'[i].archivedBy]
                /\ Members(conversations'[i].archivedBy) \ {u} =
                      Members(conversations[i].archivedBy) \ {u}
                /\ \A j \in DOMAIN conversations :
                      j # i => conversations'[j] = conversations[j]]_vars

\* C37 witness: a user has just toggled mute on a conversation that another
\* user has muted and that somebody has archived.
ToggledBesideOthers ==
    /\ returned.op = "toggleMute"
    /\ \E i \in DOMAIN conversations :
          /\ returned.result = DocumentResult(i)
          /\ Members(conversations[i].mutedBy) \ {returned.userId} # {}
          /\ conversations[i].archivedBy # <<>>

\* Processes p and q have each finished one toggle of the same kind on the
\* same conversation, through copies loaded before either saved, for the
\* two participants of the conversation; no other process took part.
ToggledConcurrently(p, q) ==
    /\ p # q
    /\ calls[p].pc \in {"saved", "thrown"}
    /\ calls[q].pc \in {"saved", "thrown"}
    /\ \A r \in Procs \ {p, q} : calls[r].pc = "idle"
    /\ calls[p].id = calls[q].id
    /\ calls[p].doc = calls[q].doc
    /\ calls[p].op = calls[q].op
    /\ calls[p].userId # calls[q].userId
    /\ {calls[p].userId, calls[q].userId} = Elems(calls[p].doc.participants)

\* C38: when the two participants of a conversation each toggle mute (or
\* archive) through copies loaded before either saved, the stored
\* conversation shows both flips after both saves.
ConcurrentTogglesBothKept ==
    \A p \in Procs, q \in Procs :
        ToggledConcurrently(p, q) =>
            LET stored == conversations[calls[p].id]
                loaded == calls[p].doc
            IN  \A u \in {calls[p].userId, calls[q].userId} :
                    IF calls[p].op = "toggleMute"
                    THEN isMutedFor(stored, u) = ~isMutedFor(loaded, u)
                    ELSE isArchivedFor(stored, u) = ~isArchivedFor(loaded, u)

\* C39: for a direct conversation of A and B, A different from B,
\* getOtherParticipant(A) returns B and getOtherParticipant(B) returns A;
\* for a group conversation it returns null; it never returns the user it
\* was called with.
OtherParticipantReturned ==
    output.fn = "getOtherParticipant" =>
        LET conv == input.conv
            userId == input.userId
        IN  /\ (/\ conv.type = "direct"
                /\ conv.participants[1] # conv.participants[2]
                /\ userId \in Elems(conv.participants)) =>
                   /\ output.result.kind = "id"
                   /\ {userId, output.result.id} = Elems(conv.participants)
            /\ conv.type = "group" => output.result = NullResult
            /\ output.result # IdResult(userId)

\* C39 witness: called with the first participant of a direct conversation
\* of two users, getOtherParticipant returned the second.
SecondParticipantReturned ==
    /\ output.fn = "getOtherParticipant"
    /\ input.conv.type = "direct"
    /\ input.userId = input.conv.participants[1]
    /\ input.conv.participants[2] # input.userId
    /\ output.result = IdResult(input.conv.participants[2])

\* C40: a connection that supplies no user id has no effect on presence:
\* neither its connect nor its disconnect adds or removes a registry entry
\* or causes an online or offline notification to be broadcast.
AnonymousConnectionLeavesPresence ==
    [][\A s \in SocketIds :
          (\/ Connect(s, NoUser)
           \/ (Disconnect(s) /\ sockets[s].userId = NoUser)) =>
              /\ activeUsers' = activeUsers
              /\ \A e \in emitted' :
                    e.event \notin {"user:online", "user:offline"}]_vars

====
